---- MODULE Spec2Model ----
(***************************************************************************)
(* Model of megatron/training/yaml_arguments.py: the environment-variable  *)
(* constructor env_constructor, the merge of a YAML namespace with the     *)
(* command line namespace (merge_yaml_and_cli_args) and load_yaml.         *)
(*                                                                         *)
(* A Python value is a record [t, v, f, s]: t is the name of its type, v   *)
(* an integer payload that tells numbers of one type apart, f the fields   *)
(* of a nested mapping (the empty function for a scalar) and s the         *)
(* characters of a string (the empty sequence for the other types).        *)
(* A string is a sequence of one-character strings.                        *)
(* A namespace is a function from the set of its attribute names to        *)
(* values; attributes are visited in ascending key order, which stands for *)
(* the insertion order of vars(ns).                                        *)
(***************************************************************************)
EXTENDS Integers, Sequences, FiniteSets, TLC

VARIABLES pc, yaml_args, cli_args, ignore_unknown_args, args, error, error_key,
          value, environ, result, missing, config

vars == <<pc, yaml_args, cli_args, ignore_unknown_args, args, error, error_key,
          value, environ, result, missing, config>>

mergeVars == <<yaml_args, cli_args, ignore_unknown_args, args>>

envVars == <<value, environ, result, missing>>

\* ---------------------------------------------------------------- bounds
MaxKeys == 2

MaxTokens == 3

Keys == 1..MaxKeys

\* ---------------------------------------------------------------- values
\* the fields of a value that is not a mapping
NoFields == [x \in {} |-> 0]

Scalar(type, payload) == [t |-> type, v |-> payload, f |-> NoFields, s |-> <<>>]

Str(chars) == [t |-> "str", v |-> 0, f |-> NoFields, s |-> chars]

None == Scalar("NoneType", 0)

Namespace(fields) == [t |-> "SimpleNamespace", v |-> 0, f |-> fields, s |-> <<>>]

Dict(fields) == [t |-> "dict", v |-> 0, f |-> fields, s |-> <<>>]

NamespaceValues ==
    { Namespace([x \in {"type"} |-> Str(<<"A">>)]),
      Namespace([x \in {"type"} |-> Scalar("int", 1)]),
      Namespace([x \in {"type", "lr"} |->
                    IF x = "type" THEN Str(<<"B">>) ELSE Scalar("float", 1)]) }

ScalarValues ==
    { None, Scalar("bool", 1), Scalar("int", 1), Scalar("int", 2),
      Scalar("float", 1), Str(<<"A">>) }

Values == ScalarValues \cup NamespaceValues

Namespaces == UNION { [D -> Values] : D \in SUBSET Keys }

\* type(val)
TypeOf(val) == val.t

\* isinstance(value, type): the type itself or a subclass of it; among the
\* builtin types bool is a subclass of int.
IsInstance(val, type) ==
    \/ TypeOf(val) = type
    \/ TypeOf(val) = "bool" /\ type = "int"

\* getattr(ns, key, default)
GetAttr(ns, key, default) == IF key \in DOMAIN ns THEN ns[key] ELSE default

\* variant of HasAttr that finds every attribute
HasAttrAlways(ns, key) == TRUE

\* hasattr(ns, key)
HasAttr(ns, key) == key \in DOMAIN ns

\* the namespace after setattr(ns, key, val)
SetAttr(ns, key, val) ==
    [k \in DOMAIN ns \cup {key} |-> IF k = key THEN val ELSE ns[k]]

EmptyNamespace == [k \in {} |-> None]

\* variant of InitialArgs that starts from the attributes of the YAML namespace
InitialArgsSeeded(yaml, cli) == yaml

\* args = SimpleNamespace(): the result starts empty
InitialArgs(yaml, cli) == EmptyNamespace

\* vars(ns) in iteration order
RECURSIVE KeysFrom(_, _)
KeysFrom(ns, k) ==
    IF k > MaxKeys THEN <<>>
    ELSE (IF k \in DOMAIN ns THEN <<k>> ELSE <<>>) \o KeysFrom(ns, k + 1)

VarsOf(ns) == KeysFrom(ns, 1)

\* ---------------------------------------------------------------- strings
NL == "\n"

\* variant of Placeholder without the braces
PlaceholderBare(group) == <<"$">> \o group

\* the placeholder text f"${{{group}}}"
Placeholder(group) == <<"$", "{">> \o group \o <<"}">>

\* s has t at position i
OccursAt(s, t, i) ==
    /\ i + Len(t) - 1 <= Len(s)
    /\ \A j \in 1..Len(t) : s[i + j - 1] = t[j]

\* str.replace from position i on: the occurrences that do not overlap, from
\* left to right
RECURSIVE ReplaceFrom(_, _, _, _)
ReplaceFrom(s, old, new, i) ==
    IF i > Len(s) THEN <<>>
    ELSE IF OccursAt(s, old, i)
         THEN new \o ReplaceFrom(s, old, new, i + Len(old))
         ELSE <<s[i]>> \o ReplaceFrom(s, old, new, i + 1)

\* value.replace(old, new): every occurrence (old is never empty here)
Replace(s, old, new) == ReplaceFrom(s, old, new, 1)

\* env_pattern = r".*?\${(.*?)}.*?" can take "${" at q: a "}" follows with
\* no line break in between ("." does not match a line break); the result is
\* the position of that "}", or 0
CloseOf(s, q) ==
    IF q + 1 <= Len(s) /\ s[q] = "$" /\ s[q + 1] = "{"
    THEN LET ends == {r \in (q + 2)..Len(s) :
                         /\ s[r] = "}"
                         /\ \A j \in (q + 2)..(r - 1) : s[j] # NL /\ s[j] # "}"}
         IN  IF ends = {} THEN 0 ELSE CHOOSE r \in ends : TRUE
    ELSE 0

\* the matches of env_pattern.findall(s) from position pos on, each as the
\* positions [q, r] of its "${" and its "}"
RECURSIVE Matches(_, _)
Matches(s, pos) ==
    LET starts == {q \in pos..Len(s) : CloseOf(s, q) # 0}
    IN  IF starts = {} THEN <<>>
        ELSE LET q == CHOOSE x \in starts : \A y \in starts : x <= y
                 r == CloseOf(s, q)
             IN  <<[q |-> q, r |-> r]>> \o Matches(s, r + 1)

GroupOf(s, m) == SubSeq(s, m.q + 2, m.r - 1)

GroupsOf(s, ms) == [i \in 1..Len(ms) |-> GroupOf(s, ms[i])]

\* env_pattern.findall(s): the group of every match
FindAll(s) == GroupsOf(s, Matches(s, 1))

\* env_pattern.match(s): a match that starts at the first character, so a
\* "${" the pattern can take with no line break before it
PatternMatch(s) ==
    \E q \in 1..Len(s) : CloseOf(s, q) # 0 /\ \A j \in 1..(q - 1) : s[j] # NL

\* os.environ.get(group) is not None
EnvironHas(env, group) == group \in DOMAIN env

\* the loop of env_constructor over the groups found in the scalar
RECURSIVE EnvLoop(_, _, _, _)
EnvLoop(val, groups, i, env) ==
    IF i > Len(groups) THEN [raised |-> FALSE, missing |-> <<>>, value |-> val]
    ELSE LET group == groups[i]
         IN  IF ~EnvironHas(env, group)
             THEN [raised |-> TRUE, missing |-> group, value |-> val]
             ELSE EnvLoop(Replace(val, Placeholder(group), env[group]), groups, i + 1, env)

env_constructor(scalar, env) == EnvLoop(scalar, FindAll(scalar), 1, env)

\* ---------------------------------------------------------------- merge
\* variant of YamlValuePresent without the test for None
YamlValuePresentAlways(yaml_value) == TRUE

\* the test "yaml_value is not None"
YamlValuePresent(yaml_value) == yaml_value # None

\* variant of YamlBranchValue that keeps the CLI value
YamlBranchValueCli(yaml_value, cli_value) == cli_value

\* variant of YamlBranchValue that merges two nested namespaces field by field
YamlBranchValueDeep(yaml_value, cli_value) ==
    IF TypeOf(yaml_value) = "SimpleNamespace" /\ TypeOf(cli_value) = "SimpleNamespace"
    THEN Namespace([x \in DOMAIN cli_value.f \cup DOMAIN yaml_value.f |->
                       IF x \in DOMAIN yaml_value.f THEN yaml_value.f[x]
                       ELSE cli_value.f[x]])
    ELSE yaml_value

\* the value stored for a key whose YAML value is not None
YamlBranchValue(yaml_value, cli_value) == yaml_value

\* the type assertion of the first loop
TypeAssertion(yaml_value, expected_type) == IsInstance(yaml_value, expected_type)

\* the first loop, from position i of the key list, with the result so far
RECURSIVE MergeLoop(_, _, _, _, _)
MergeLoop(yaml, cli, keys, i, acc) ==
    IF i > Len(keys) THEN [raised |-> FALSE, key |-> 0, args |-> acc]
    ELSE LET key == keys[i]
             cli_value == cli[key]
             yaml_value == GetAttr(yaml, key, None)
             expected_type == TypeOf(cli_value)
         IN  IF YamlValuePresent(yaml_value)
             THEN IF ~TypeAssertion(yaml_value, expected_type)
                  THEN [raised |-> TRUE, key |-> key, args |-> acc]
                  ELSE MergeLoop(yaml, cli, keys, i + 1,
                                 SetAttr(acc, key, YamlBranchValue(yaml_value, cli_value)))
             ELSE MergeLoop(yaml, cli, keys, i + 1, SetAttr(acc, key, cli_value))

\* the second loop: the first key of the YAML namespace the CLI lacks, or 0
RECURSIVE UnknownLoop(_, _, _)
UnknownLoop(cli, keys, i) ==
    IF i > Len(keys) THEN 0
    ELSE IF ~HasAttr(cli, keys[i]) THEN keys[i]
    ELSE UnknownLoop(cli, keys, i + 1)

\* variant of UnknownCheckRuns that disregards the flag
UnknownCheckAlways(ignore) == TRUE

\* the test "not ignore_unknown_args"
UnknownCheckRuns(ignore) == ~ignore

merge_yaml_and_cli_args(yaml, cli, ignore) ==
    LET loop == MergeLoop(yaml, cli, VarsOf(cli), 1, InitialArgs(yaml, cli))
        unknown == UnknownLoop(cli, VarsOf(yaml), 1)
    IN  IF loop.raised
        THEN [status |-> "raise", error |-> "Invalid type", key |-> loop.key,
              args |-> EmptyNamespace]
        ELSE IF UnknownCheckRuns(ignore) /\ unknown # 0
        THEN [status |-> "raise", error |-> "Unknown argument", key |-> unknown,
              args |-> EmptyNamespace]
        ELSE [status |-> "return", error |-> "", key |-> 0, args |-> loop.args]

\* ---------------------------------------------------------------- inputs
\* the pieces the scalars of the model are put together from
Tokens ==
    { <<"$">>, <<"{">>, <<"}">>, <<"A">>, <<NL>>, <<"$", "{">>,
      <<"$", "{", "A", "}">>, <<"$", "{", "B", "}">>, <<"{", "B", "}">> }

RECURSIVE Concat(_, _)
Concat(ts, i) == IF i > Len(ts) THEN <<>> ELSE ts[i] \o Concat(ts, i + 1)

Scalars == { Concat(ts, 1) : ts \in UNION { [1..n -> Tokens] : n \in 0..MaxTokens } }

NameA == <<"A">>

NameB == <<"B">>

NameOdd == <<"$", "{", "A">>

EnvNames == {NameA, NameB, NameOdd}

EnvValuesOf(name) ==
    IF name = NameA
    THEN { <<>>, <<"/">>, <<"$">>, <<"}">>, <<"{", "B", "}">>, <<"$", "{", "B", "}">> }
    ELSE IF name = NameB THEN { <<"/">>, <<"A">> }
    ELSE { <<"/">> }

EnvValues == UNION { EnvValuesOf(name) : name \in EnvNames }

Environs ==
    { env \in UNION { [D -> EnvValues] : D \in SUBSET EnvNames } :
          \A name \in DOMAIN env : env[name] \in EnvValuesOf(name) }

NoEnviron == [name \in {} |-> <<>>]

NoConfig == [k \in {} |-> 0]

\* ---------------------------------------------------------------- actions
InitMerge ==
    /\ pc = "call"
    /\ yaml_args \in Namespaces
    /\ cli_args \in Namespaces
    /\ ignore_unknown_args \in BOOLEAN
    /\ args = EmptyNamespace
    /\ error = ""
    /\ error_key = 0
    /\ value = <<>>
    /\ environ = NoEnviron
    /\ result = <<>>
    /\ missing = <<>>
    /\ config = NoConfig

MergeOutcome == merge_yaml_and_cli_args(yaml_args, cli_args, ignore_unknown_args)

\* the call returns the namespace out.args
Returns(out) ==
    /\ out.status = "return"
    /\ pc' = "returned"
    /\ args' = out.args
    /\ UNCHANGED <<yaml_args, cli_args, ignore_unknown_args, error, error_key, envVars, config>>

\* the call ends with the assertion of the merge that out names
RaisesMergeError(out, kind) ==
    /\ out.status = "raise"
    /\ out.error = kind
    /\ pc' = "raised"
    /\ error' = out.error
    /\ error_key' = out.key
    /\ UNCHANGED <<mergeVars, envVars, config>>

MergeReturns == pc = "call" /\ Returns(MergeOutcome)

MergeRaisesInvalidType == pc = "call" /\ RaisesMergeError(MergeOutcome, "Invalid type")

MergeRaisesUnknownArgument == pc = "call" /\ RaisesMergeError(MergeOutcome, "Unknown argument")

NextMerge == MergeReturns \/ MergeRaisesInvalidType \/ MergeRaisesUnknownArgument

SpecMerge == InitMerge /\ [][NextMerge]_vars

\* ---------------------------------------------------------------- env_constructor
InitEnv ==
    /\ pc = "call"
    /\ value \in Scalars
    /\ environ \in Environs
    /\ result = <<>>
    /\ missing = <<>>
    /\ error = ""
    /\ error_key = 0
    /\ yaml_args = EmptyNamespace
    /\ cli_args = EmptyNamespace
    /\ ignore_unknown_args = FALSE
    /\ args = EmptyNamespace
    /\ config = NoConfig

EnvOutcome == env_constructor(value, environ)

EnvConstructorReturns ==
    /\ pc = "call"
    /\ ~EnvOutcome.raised
    /\ pc' = "returned"
    /\ result' = EnvOutcome.value
    /\ UNCHANGED <<value, environ, missing, error, error_key, mergeVars, config>>

EnvConstructorRaises ==
    /\ pc = "call"
    /\ EnvOutcome.raised
    /\ pc' = "raised"
    /\ error' = "environment variable not found"
    /\ missing' = EnvOutcome.missing
    /\ UNCHANGED <<value, environ, result, error_key, mergeVars, config>>

NextEnv == EnvConstructorReturns \/ EnvConstructorRaises

SpecEnv == InitEnv /\ [][NextEnv]_vars

\* ---------------------------------------------------------------- load_yaml
\* A node of the parsed document: a string scalar with its style and text, a
\* scalar that one of the loader's own resolvers takes (int, float, bool,
\* null) with its value, or a mapping of field names to nodes.
StrNode(style, text) ==
    [kind |-> "str", style |-> style, text |-> text, val |-> None, fields |-> NoFields]

ValNode(val) ==
    [kind |-> "resolved", style |-> "plain", text |-> <<>>, val |-> val, fields |-> NoFields]

MapNode(fields) ==
    [kind |-> "mapping", style |-> "", text |-> <<>>, val |-> None, fields |-> fields]

\* yaml.add_implicit_resolver("!pathex", env_pattern): an implicit resolver
\* tags the plain (unquoted, untagged) scalars that the pattern matches
ImplicitlyResolved(node) ==
    node.kind = "str" /\ node.style = "plain" /\ PatternMatch(node.text)

\* the string env_constructor returns for a tagged scalar, or its assertion
Constructed(out) ==
    [raised |-> out.raised,
     missing |-> IF out.raised THEN {out.missing} ELSE {},
     val |-> Str(out.value)]

\* the value the loader constructs for a scalar node
ConstructScalar(node, env) ==
    IF node.kind = "resolved"
    THEN [raised |-> FALSE, missing |-> {}, val |-> node.val]
    ELSE IF ImplicitlyResolved(node)
    THEN Constructed(env_constructor(node.text, env))
    ELSE [raised |-> FALSE, missing |-> {}, val |-> Str(node.text)]

\* the dict of the constructed fields of a mapping; an assertion raised for
\* any of them ends the load
ConstructMapping(outs) ==
    [raised |-> \E x \in DOMAIN outs : outs[x].raised,
     missing |-> UNION { outs[x].missing : x \in DOMAIN outs },
     val |-> Dict([x \in DOMAIN outs |-> outs[x].val])]

\* the value the loader constructs for a node
RECURSIVE ConstructNode(_, _)
ConstructNode(node, env) ==
    IF node.kind = "mapping"
    THEN ConstructMapping([x \in DOMAIN node.fields |-> ConstructNode(node.fields[x], env)])
    ELSE ConstructScalar(node, env)

\* yaml.load(f, Loader=yaml.FullLoader) of a document that is a mapping
yaml_load(cfg, env) == ConstructMapping([k \in DOMAIN cfg |-> ConstructNode(cfg[k], env)])

\* json.loads(json.dumps(x), object_hook=lambda item: SimpleNamespace(**item))
\* of one value: every dict becomes a SimpleNamespace, the rest is kept
RECURSIVE ObjectHook(_)
ObjectHook(val) ==
    IF TypeOf(val) = "dict"
    THEN Namespace([x \in DOMAIN val.f |-> ObjectHook(val.f[x])])
    ELSE val

\* the same for the document: the namespace of its converted values
JsonRoundTrip(data) == ObjectHook(data).f

\* the rest of load_yaml once yaml.load has returned or raised; missing is the
\* set of the variables the assertion of env_constructor can name
LoadParsed(parsed, cli, ignore) ==
    IF parsed.raised
    THEN [status |-> "raise", error |-> "environment variable not found", key |-> 0,
          args |-> EmptyNamespace, missing |-> parsed.missing]
    ELSE [m \in {"missing"} |-> {}]
         @@ merge_yaml_and_cli_args(JsonRoundTrip(parsed.val), cli, ignore)

load_yaml(cfg, env, cli, ignore) == LoadParsed(yaml_load(cfg, env), cli, ignore)

LoadNodes ==
    { ValNode(Scalar("int", 2)),
      StrNode("plain", <<"/">>),
      StrNode("plain", <<"$", "{", "A", "}", "/">>),
      StrNode("plain", <<"$", "{", "A", "}", "$", "{", "B", "}">>),
      StrNode("quoted", <<"$", "{", "B", "}">>),
      MapNode([x \in {"type"} |-> StrNode("plain", <<"$", "{", "B", "}">>)]) }

Configs == UNION { [D -> LoadNodes] : D \in SUBSET Keys }

LoadEnvirons == UNION { [D -> {<<"/">>}] : D \in SUBSET {NameA, NameB} }

LoadBaselineValues ==
    { Scalar("int", 1), Str(<<"/">>), Namespace([x \in {"type"} |-> Str(<<"A">>)]) }

LoadBaselines == UNION { [D -> LoadBaselineValues] : D \in SUBSET Keys }

InitLoad ==
    /\ pc = "call"
    /\ config \in Configs
    /\ environ \in LoadEnvirons
    /\ cli_args \in LoadBaselines
    /\ ignore_unknown_args \in BOOLEAN
    /\ yaml_args = EmptyNamespace
    /\ args = EmptyNamespace
    /\ error = ""
    /\ error_key = 0
    /\ value = <<>>
    /\ result = <<>>
    /\ missing = <<>>

LoadOutcome == load_yaml(config, environ, cli_args, ignore_unknown_args)

\* the call ends with the assertion of env_constructor; the variable reported
\* is that of the scalar the loader constructs first among those that fail:
\* any of them here
RaisesNotFound(out) ==
    /\ out.status = "raise"
    /\ out.error = "environment variable not found"
    /\ pc' = "raised"
    /\ error' = out.error
    /\ \E name \in out.missing : missing' = name
    /\ UNCHANGED <<mergeVars, error_key, value, environ, result, config>>

LoadReturns == pc = "call" /\ Returns(LoadOutcome)

LoadRaisesNotFound == pc = "call" /\ RaisesNotFound(LoadOutcome)

LoadRaisesInvalidType == pc = "call" /\ RaisesMergeError(LoadOutcome, "Invalid type")

LoadRaisesUnknownArgument == pc = "call" /\ RaisesMergeError(LoadOutcome, "Unknown argument")

NextLoad ==
    \/ LoadReturns
    \/ LoadRaisesNotFound
    \/ LoadRaisesInvalidType
    \/ LoadRaisesUnknownArgument

SpecLoad == InitLoad /\ [][NextLoad]_vars

\* ---------------------------------------------------------------- properties
Returned == pc = "returned"

Raised(kind) == pc = "raised" /\ error = kind

SharedKeys == DOMAIN yaml_args \cap DOMAIN cli_args

UnknownKeys == DOMAIN yaml_args \ DOMAIN cli_args

IsNested(val) == TypeOf(val) = "SimpleNamespace"

\* some key of the baseline carries a non-null file value that is not an
\* instance of the type of the baseline value
TypeCheckFails ==
    \E k \in SharedKeys :
        yaml_args[k] # None /\ ~IsInstance(yaml_args[k], TypeOf(cli_args[k]))

\* C1: when every key of the file is a key of the baseline with a value of the
\* same type and unknown keys are ignored, the merge returns, and the result
\* holds the file's value for every key of the file and the baseline's value
\* for every other key of the baseline.
Thm_C1_FilePrecedence ==
    ( /\ ignore_unknown_args
      /\ \A k \in DOMAIN yaml_args :
            k \in DOMAIN cli_args /\ TypeOf(yaml_args[k]) = TypeOf(cli_args[k]) )
    => /\ pc # "raised"
       /\ Returned =>
            /\ DOMAIN args = DOMAIN cli_args
            /\ \A k \in DOMAIN cli_args :
                  args[k] = IF k \in DOMAIN yaml_args THEN yaml_args[k] ELSE cli_args[k]

Wit_C1_FilePrecedence ==
    /\ Returned
    /\ ignore_unknown_args
    /\ \A k \in DOMAIN yaml_args :
          k \in DOMAIN cli_args /\ TypeOf(yaml_args[k]) = TypeOf(cli_args[k])
    /\ \E k \in DOMAIN yaml_args : yaml_args[k] # cli_args[k] /\ args[k] = yaml_args[k]
    /\ \E k \in DOMAIN cli_args : k \notin DOMAIN yaml_args /\ args[k] = cli_args[k]

\* C2 as stated: with ignore_unknown_args false the merge fails with "Unknown
\* argument" exactly when the file has a key the baseline lacks, whatever else
\* the file contains; with ignore_unknown_args true it never does.
Orig_C2_UnknownIff ==
    pc # "call" =>
        /\ ~ignore_unknown_args => (Raised("Unknown argument") <=> UnknownKeys # {})
        /\ ignore_unknown_args => ~Raised("Unknown argument")

\* C2 amended: with ignore_unknown_args false the merge fails with "Unknown
\* argument" exactly when the file has a key the baseline lacks and no key of
\* the baseline carries a non-null file value that fails the type check (the
\* type check runs first); with ignore_unknown_args true it never does.
Thm_C2_UnknownAfterTypeCheck ==
    pc # "call" =>
        /\ ~ignore_unknown_args =>
              (Raised("Unknown argument") <=> (UnknownKeys # {} /\ ~TypeCheckFails))
        /\ ignore_unknown_args => ~Raised("Unknown argument")

Wit_C2_UnknownAfterTypeCheck ==
    /\ Raised("Unknown argument")
    /\ ~ignore_unknown_args
    /\ UnknownKeys # {}
    /\ SharedKeys # {}
    /\ error_key \in UnknownKeys

\* C3 as stated: for either value of ignore_unknown_args the merge fails with
\* "Invalid type" exactly when some key of both mappings has values of
\* differing types in the file and in the baseline. A null in the file counts
\* as no value for the key, as C9 has it.
Orig_C3_TypeMismatchIff ==
    pc # "call" =>
        ( Raised("Invalid type") <=>
          \E k \in SharedKeys :
              yaml_args[k] # None /\ TypeOf(yaml_args[k]) # TypeOf(cli_args[k]) )

\* C4 as stated: whenever the merge returns, the value of every key of both
\* mappings has exactly the type of the baseline value.
Orig_C4_ExactType ==
    Returned => \A k \in SharedKeys : TypeOf(args[k]) = TypeOf(cli_args[k])

\* C7: a key that holds a nested mapping in both the file and the baseline
\* gets the file's nested mapping wholesale (no field of the baseline's nested
\* mapping is added or kept), and when every shared key is nested in both no
\* "Invalid type" is raised, whatever the inner fields hold.
Thm_C7_NoRecursion ==
    /\ Returned =>
          \A k \in SharedKeys :
              (IsNested(yaml_args[k]) /\ IsNested(cli_args[k])) => args[k] = yaml_args[k]
    /\ (\A k \in SharedKeys : IsNested(yaml_args[k]) /\ IsNested(cli_args[k]))
          => ~Raised("Invalid type")

Wit_C7_NoRecursion ==
    /\ Returned
    /\ \E k \in SharedKeys :
          /\ IsNested(yaml_args[k]) /\ IsNested(cli_args[k])
          /\ \E x \in DOMAIN cli_args[k].f : x \notin DOMAIN yaml_args[k].f
          /\ \E x \in DOMAIN yaml_args[k].f \cap DOMAIN cli_args[k].f :
                TypeOf(yaml_args[k].f[x]) # TypeOf(cli_args[k].f[x])
          /\ DOMAIN args[k].f = DOMAIN yaml_args[k].f

\* C8: when the file and the baseline share no key and unknown keys are
\* ignored, the merge returns a result equal to the baseline.
Thm_C8_DisjointIsBaseline ==
    (ignore_unknown_args /\ SharedKeys = {})
    => /\ pc # "raised"
       /\ Returned => args = cli_args

Wit_C8_DisjointIsBaseline ==
    /\ Returned
    /\ ignore_unknown_args
    /\ SharedKeys = {}
    /\ DOMAIN yaml_args # {}
    /\ DOMAIN cli_args # {}
    /\ \E k \in DOMAIN yaml_args : yaml_args[k] # None

\* the file namespace without attribute k
Without(ns, k) == [j \in DOMAIN ns \ {k} |-> ns[j]]

\* a null-valued key of the baseline is treated as if the file lacked it
NullAsAbsent ==
    \A k \in SharedKeys :
        yaml_args[k] = None =>
            LET other == merge_yaml_and_cli_args(Without(yaml_args, k), cli_args,
                                                 ignore_unknown_args)
            IN  /\ Returned => (args[k] = cli_args[k] /\ other.status = "return"
                                /\ other.args = args)
                /\ pc = "raised" => (other.status = "raise" /\ other.error = error)
                /\ Raised("Invalid type") => error_key # k

NullUnknownKeys == {k \in UnknownKeys : yaml_args[k] = None}

\* C9 as stated: a null file value of a baseline key is treated as if the key
\* were absent from the file (the baseline value is kept, no "Invalid type" for
\* that key), and a null-valued file key the baseline lacks is still reported
\* as "Unknown argument" when ignore_unknown_args is false.
Orig_C9_NullValues ==
    pc # "call" =>
        /\ NullAsAbsent
        /\ (~ignore_unknown_args /\ NullUnknownKeys # {}) => Raised("Unknown argument")

\* C9 amended: as stated, except that the null-valued unknown key is reported
\* as "Unknown argument" only when no key of the baseline carries a non-null
\* file value that fails the type check; otherwise "Invalid type" is raised.
Thm_C9_NullValues ==
    pc # "call" =>
        /\ NullAsAbsent
        /\ (~ignore_unknown_args /\ NullUnknownKeys # {}) =>
              IF TypeCheckFails THEN Raised("Invalid type")
              ELSE Raised("Unknown argument")

Wit_C9_NullValues ==
    /\ Returned
    /\ \E k \in SharedKeys :
          /\ yaml_args[k] = None
          /\ cli_args[k] # None
          /\ args[k] = cli_args[k]
    /\ \E k \in SharedKeys : yaml_args[k] # None

\* C10: a call of the merge leaves the file and the baseline namespaces as
\* they were, and when it returns the key set of the result is exactly the key
\* set of the baseline.
Thm_C10_KeySet ==
    [][ pc = "call" =>
          /\ yaml_args' = yaml_args
          /\ cli_args' = cli_args
          /\ (pc' = "returned" => DOMAIN args' = DOMAIN cli_args) ]_vars

Wit_C10_KeySet ==
    /\ Returned
    /\ UnknownKeys # {}
    /\ DOMAIN cli_args \ DOMAIN yaml_args # {}
    /\ DOMAIN args = DOMAIN cli_args

\* the scalar with every match of the pattern replaced, in one pass from left
\* to right, by the value of the variable it names
RECURSIVE ExpandFrom(_, _, _, _, _)
ExpandFrom(s, env, ms, i, pos) ==
    IF i > Len(ms) THEN SubSeq(s, pos, Len(s))
    ELSE SubSeq(s, pos, ms[i].q - 1) \o env[GroupOf(s, ms[i])]
         \o ExpandFrom(s, env, ms, i + 1, ms[i].r + 1)

Expanded(s, env) == ExpandFrom(s, env, Matches(s, 1), 1, 1)

Has(s, c) == \E i \in 1..Len(s) : s[i] = c

ReferencedNames == { FindAll(value)[i] : i \in 1..Len(FindAll(value)) }

AllReferencedSet == \A name \in ReferencedNames : name \in DOMAIN environ

\* the names are free of "$" and their values are non-empty and free of "$" and "{"
PlainNamesAndValues ==
    \A name \in ReferencedNames :
        /\ ~Has(name, "$")
        /\ name \in DOMAIN environ
        /\ environ[name] # <<>>
        /\ ~Has(environ[name], "$")
        /\ ~Has(environ[name], "{")

FullyExpanded ==
    /\ pc = "returned"
    /\ result = Expanded(value, environ)
    /\ FindAll(result) = <<>>

\* C5 as stated: when every name the scalar references is set, env_constructor
\* returns the scalar with every ${NAME} replaced by the value of NAME, and the
\* returned string holds no placeholder.
Orig_C5_Substitution == (pc # "call" /\ AllReferencedSet) => FullyExpanded

\* C5 amended: the same, for the environments in which every referenced name
\* contains no "$" and is set to a non-empty value that contains neither "$"
\* nor "{" (the replacements are made one name after the other on the whole
\* string, so a value that brings placeholder text is expanded again or left as
\* a placeholder).
Thm_C5_Substitution == (pc # "call" /\ PlainNamesAndValues) => FullyExpanded

Wit_C5_Substitution ==
    /\ pc = "returned"
    /\ PlainNamesAndValues
    /\ Len(FindAll(value)) = 3
    /\ Cardinality(ReferencedNames) = 2
    /\ result # value
    /\ result = Expanded(value, environ)

\* the string scalars of a node, those of the fields of a mapping included
RECURSIVE StringScalars(_)
StringScalars(node) ==
    IF node.kind = "mapping"
    THEN UNION { StringScalars(node.fields[x]) : x \in DOMAIN node.fields }
    ELSE IF node.kind = "str" THEN {node} ELSE {}

ConfigStrings == UNION { StringScalars(config[k]) : k \in DOMAIN config }

NamesUnset(text) ==
    \E i \in 1..Len(FindAll(text)) : FindAll(text)[i] \notin DOMAIN environ

\* C6 as stated: when a placeholder of any string scalar of the file names a
\* variable that is not set, load_yaml fails with the missing-variable error
\* and returns no merged result.
Orig_C6_MissingAborts ==
    (pc # "call" /\ \E node \in ConfigStrings : NamesUnset(node.text))
    => /\ pc = "raised"
       /\ error = "environment variable not found"
       /\ args = EmptyNamespace

====
